---- MODULE Spec2Model ----
(***************************************************************************)
(* CNaaSProm metrics exporter: package metrics of src/main.go.             *)
(*                                                                         *)
(* On every scrape MetricsHandler fetches JSON from the statistics and    *)
(* the monitoring API, folds the payloads into map[string]map[string]int, *)
(* replaces the process-wide metricsRegistry, registers one gauge per     *)
(* (category, metric) pair and serves the registry.                       *)
(*                                                                         *)
(* Strings are sequences of one-character strings, so that fmt.Sprintf,   *)
(* strings.Fields and strconv.ParseFloat are computed, not assumed.       *)
(* Go maps are functions whose domain is the set of keys.                  *)
(***************************************************************************)
EXTENDS Integers, Sequences, FiniteSets, TLC

\* Total number of scrape requests the HTTP server accepts in one behaviour.
MaxScrapes == 2

\* Request slots: net/http runs the handler of every connection in its own
\* goroutine, so two scrapes can be in the handler at the same time.
Reqs == {1, 2}

DataTypes == {"statistics", "monitoring"}

EmptyMap == [k \in {} |-> 0]

----------------------------------------------------------------------------
(* Names used by the sample configurations and payloads.                   *)

catQ == <<"Q">>
catM == <<"M">>
catQA == <<"Q", "_", "A">>
jsonA == <<"A">>
jsonB == <<"B">>
metricX == <<"x">>
metricY == <<"y">>

\* fmt.Sprintf("%s_%s", a, b)
SprintfUnderscore(a, b) == a \o <<"_">> \o b

\* fmt.Sprintf("Metric %s from category %s", metricName, category)
SprintfHelp(metricName, category) ==
    <<"Metric ">> \o metricName \o <<" from category ">> \o category

----------------------------------------------------------------------------
(* Value coercion of a monitoring reading (src/main.go:144-156).           *)

Digits == {"0", "1", "2", "3", "4", "5", "6", "7", "8", "9"}

DigitVal(c) ==
    CASE c = "0" -> 0 [] c = "1" -> 1 [] c = "2" -> 2 [] c = "3" -> 3
      [] c = "4" -> 4 [] c = "5" -> 5 [] c = "6" -> 6 [] c = "7" -> 7
      [] c = "8" -> 8 [] c = "9" -> 9

\* unicode.IsSpace restricted to the characters of the sample readings
IsSpace(c) == c \in {" ", "\t", "\n"}

RECURSIVE SkipSpaces(_)
SkipSpaces(s) ==
    IF s = <<>> THEN <<>>
    ELSE IF IsSpace(Head(s)) THEN SkipSpaces(Tail(s)) ELSE s

RECURSIVE TakeField(_)
TakeField(s) ==
    IF s = <<>> \/ IsSpace(Head(s)) THEN <<>>
    ELSE <<Head(s)>> \o TakeField(Tail(s))

\* strings.Fields(s): the maximal runs of non-space characters, in order.
RECURSIVE Fields(_)
Fields(s) ==
    LET rest == SkipSpaces(s) IN
    IF rest = <<>> THEN <<>>
    ELSE LET f == TakeField(rest) IN
         <<f>> \o Fields(SubSeq(rest, Len(f) + 1, Len(rest)))

RECURSIVE DigitsValue(_)
DigitsValue(ds) ==
    IF ds = <<>> THEN 0
    ELSE 10 * DigitsValue(SubSeq(ds, 1, Len(ds) - 1)) + DigitVal(ds[Len(ds)])

RECURSIVE Pow10(_)
Pow10(n) == IF n = 0 THEN 1 ELSE 10 * Pow10(n - 1)

AllDigits(s) == \A i \in 1..Len(s) : s[i] \in Digits

DotAt(s) == IF \E i \in 1..Len(s) : s[i] = "."
            THEN CHOOSE i \in 1..Len(s) : s[i] = "." /\ \A j \in 1..(i - 1) : s[j] # "."
            ELSE 0

\* strconv.ParseFloat(tok, 64) on decimal literals: optional sign, digits,
\* optional fraction, at least one digit.  The value is sign * mant / 10^scale.
\* Everything else is a syntax error (exponent, hex, inf and nan forms are not
\* among the sample readings).
ParseFloat(tok) ==
    LET signed == tok # <<>> /\ Head(tok) \in {"+", "-"}
        neg == tok # <<>> /\ Head(tok) = "-"
        body == IF signed THEN Tail(tok) ELSE tok
        dot == DotAt(body)
        ip == IF dot = 0 THEN body ELSE SubSeq(body, 1, dot - 1)
        fp == IF dot = 0 THEN <<>> ELSE SubSeq(body, dot + 1, Len(body))
        ok == AllDigits(ip) /\ AllDigits(fp) /\ Len(ip) + Len(fp) > 0
    IN  IF ok
        THEN [ok |-> TRUE, neg |-> neg, mant |-> DigitsValue(ip \o fp), scale |-> Len(fp)]
        ELSE [ok |-> FALSE, neg |-> FALSE, mant |-> 0, scale |-> 0]

\* int(floatValue): truncation toward zero.
IntOfFloat(f) ==
    LET q == f.mant \div Pow10(f.scale) IN IF f.neg THEN 0 - q ELSE q

\* float64(value) of an int: exact for every |value| <= 2^53, which covers
\* every value the sample payloads can add up to.
Float64(v) == v

----------------------------------------------------------------------------
(* Upstream replies and fetchJSONData (src/main.go:43-81).                 *)

StatusOK == 200
StatusBadRequest == 400
StatusInternalServerError == 500

\* Sample monitoring readings.
v120bps == <<"1", "2", "0", " ", "b", "p", "s">>
v39Mbps == <<"3", ".", "9", " ", "M", "b", "p", "s">>
vAbc == <<"a", "b", "c">>
vEmpty == <<>>
vBlank == <<" ">>

\* JSON bodies: the shape the text has and the value it decodes to.
StatsBodies ==
    { [shape |-> "statistics", value |-> EmptyMap],
      [shape |-> "statistics", value |-> (jsonA :> EmptyMap)],
      [shape |-> "statistics", value |-> (jsonA :> (metricX :> 2))],
      [shape |-> "statistics",
       value |-> (jsonA :> (metricX :> 3)) @@ (jsonB :> (metricX :> 4))] }

MonitorBodies ==
    { [shape |-> "monitoring", value |-> EmptyMap],
      [shape |-> "monitoring", value |-> (metricX :> v120bps)],
      [shape |-> "monitoring", value |-> (metricX :> v39Mbps) @@ (metricY :> vAbc)],
      [shape |-> "monitoring", value |-> (metricX :> vEmpty)],
      [shape |-> "monitoring", value |-> (metricX :> v120bps) @@ (metricY :> vBlank)] }

InvalidBody == [shape |-> "invalid", value |-> EmptyMap]

OkReply(body) == [transportErr |-> FALSE, status |-> StatusOK, body |-> body]

\* What the upstream of one source type can answer to one GET.
Replies(dataType) ==
    { [transportErr |-> TRUE, status |-> 0, body |-> InvalidBody],
      [transportErr |-> FALSE, status |-> 404, body |-> InvalidBody],
      OkReply(InvalidBody) }
    \cup { OkReply(b) : b \in IF dataType = "statistics" THEN StatsBodies ELSE MonitorBodies }
    \cup { OkReply(b) : b \in IF dataType = "statistics"
                              THEN {[shape |-> "monitoring", value |-> (metricX :> v120bps)]}
                              ELSE {[shape |-> "statistics", value |-> (jsonA :> (metricX :> 2))]} }

\* json.Unmarshal(data, &target): the text must have the target's shape; the
\* empty object decodes into either map type.
UnmarshalOK(body, shape) ==
    \/ body.shape = shape
    \/ body.shape \in DataTypes /\ DOMAIN body.value = {}

FetchFailed == [err |-> TRUE, data |-> EmptyMap]

fetchJSONData(reply, dataType) ==
    IF reply.transportErr THEN FetchFailed
    ELSE IF reply.status # StatusOK THEN FetchFailed
    ELSE IF dataType \in DataTypes
         THEN IF UnmarshalOK(reply.body, dataType)
              THEN [err |-> FALSE, data |-> reply.body.value]
              ELSE FetchFailed
         ELSE FetchFailed

----------------------------------------------------------------------------
(* The body of the aggregation loop (src/main.go:115-161).                 *)

Lookup(m, k, default) == IF k \in DOMAIN m THEN m[k] ELSE default

\* Mutation of Accumulate: plain assignment instead of +=.
AccumulateOverwrite(old, value) == value

\* combinedData[prefixedCategory][metricName] += value
Accumulate(old, value) == old + value

\* The inner loop over one category's metrics.
AddMetrics(old, add) ==
    [m \in DOMAIN old \cup DOMAIN add |->
        IF m \in DOMAIN add THEN Accumulate(Lookup(old, m, 0), add[m]) ELSE old[m]]

\* case "statistics": one entry per nested category of the payload.
MergeStatistics(combinedData, MetricsCategory, statsData) ==
    LET keyOf(c) == SprintfUnderscore(MetricsCategory, c)
        newKeys == {keyOf(c) : c \in DOMAIN statsData}
        src(k) == CHOOSE c \in DOMAIN statsData : keyOf(c) = k
    IN  [k \in DOMAIN combinedData \cup newKeys |->
            IF k \in newKeys
            THEN AddMetrics(Lookup(combinedData, k, EmptyMap), statsData[src(k)])
            ELSE combinedData[k]]

\* strings.Fields(value)[0] indexes an empty slice when the reading holds no
\* field: a run-time panic in the branch goroutine.
MonitoringPanics(monitorData) ==
    \E m \in DOMAIN monitorData : Len(Fields(monitorData[m])) = 0

Cleaned(value) == Fields(value)[1]

\* The readings ParseFloat accepts, converted by int(floatValue).
CoercedMetrics(monitorData) ==
    LET good == {m \in DOMAIN monitorData : ParseFloat(Cleaned(monitorData[m])).ok}
    IN  [m \in good |-> IntOfFloat(ParseFloat(Cleaned(monitorData[m])))]

\* case "monitoring": the entry of the category is created before any
\* reading is parsed.
MergeMonitoring(combinedData, MetricsCategory, monitorData) ==
    [k \in DOMAIN combinedData \cup {MetricsCategory} |->
        IF k = MetricsCategory
        THEN AddMetrics(Lookup(combinedData, k, EmptyMap), CoercedMetrics(monitorData))
        ELSE combinedData[k]]

----------------------------------------------------------------------------
(* Configuration handed to MetricsHandler (src/unnamed/part_000:11-30).    *)

Server(addr, port) == [addr |-> addr, port |-> port]

Source(cats, srv) == [cats |-> cats, addr |-> srv.addr, port |-> srv.port]

Config(statsCats, statsSrv, monCats, monSrv) ==
    [statistics |-> Source(statsCats, statsSrv), monitoring |-> Source(monCats, monSrv)]

Up == Server("10.0.0.1", 8080)

Configs ==
    { Config(<<>>, Up, <<>>, Up),
      Config(<<catQ>>, Server("", 8080), <<catM>>, Server("10.0.0.1", 0)),
      Config(<<catQ, catQ>>, Up, <<>>, Up),
      Config(<<>>, Up, <<catM, catM>>, Up),
      Config(<<catQ>>, Up, <<catM>>, Up),
      Config(<<catQ>>, Up, <<catQA>>, Up) }

----------------------------------------------------------------------------
VARIABLES
    cfg,              \* the arguments MetricsHandler was built with
    metricsRegistry,  \* package variable: gauge name -> [help, value]
    crashed,          \* the process died of an unrecovered panic
    scrapes,          \* requests accepted so far
    hpc,              \* per request: where the handler closure is
    combinedData,     \* per request: the handler's combinedData
    errorChan,        \* per request: errorChan, a channel of capacity 2
    gpc,              \* per request and source type: where the branch goroutine is
    gidx,             \* per request and source type: index of the next category
    gdata,            \* per request and source type: fetchAndCombineJSONData's combinedData
    fetched,          \* per request and source type: what fetchJSONData returned, in order
    todo,             \* per request: pairs registerMetricsFromJSON has yet to visit
    resp              \* per request: the response written, status 0 while none

vars == <<cfg, metricsRegistry, crashed, scrapes, hpc, combinedData, errorChan,
          gpc, gidx, gdata, fetched, todo, resp>>

NoResponse == [status |-> 0, body |-> <<>>]

\* prometheus.NewRegistry()
NewRegistry == EmptyMap

Init ==
    /\ cfg \in Configs
    /\ metricsRegistry = NewRegistry
    /\ crashed = FALSE
    /\ scrapes = 0
    /\ hpc = [r \in Reqs |-> "idle"]
    /\ combinedData = [r \in Reqs |-> EmptyMap]
    /\ errorChan = [r \in Reqs |-> <<>>]
    /\ gpc = [r \in Reqs |-> [b \in DataTypes |-> "none"]]
    /\ gidx = [r \in Reqs |-> [b \in DataTypes |-> 1]]
    /\ gdata = [r \in Reqs |-> [b \in DataTypes |-> EmptyMap]]
    /\ fetched = [r \in Reqs |-> [b \in DataTypes |-> <<>>]]
    /\ todo = [r \in Reqs |-> {}]
    /\ resp = [r \in Reqs |-> NoResponse]

----------------------------------------------------------------------------
(* The handler closure (src/main.go:201-267).                              *)

\* len(categories) > 0 && addr != "" && port != 0
Configured(b) ==
    Len(cfg[b].cats) > 0 /\ cfg[b].addr # "" /\ cfg[b].port # 0

\* A request reaches the handler: combinedData and errorChan are made.
Start(r) ==
    /\ ~crashed
    /\ hpc[r] \in {"idle", "done"}
    /\ scrapes < MaxScrapes
    /\ scrapes' = scrapes + 1
    /\ hpc' = [hpc EXCEPT ![r] = "statistics"]
    /\ combinedData' = [combinedData EXCEPT ![r] = EmptyMap]
    /\ errorChan' = [errorChan EXCEPT ![r] = <<>>]
    /\ gpc' = [gpc EXCEPT ![r] = [b \in DataTypes |-> "none"]]
    /\ gidx' = [gidx EXCEPT ![r] = [b \in DataTypes |-> 1]]
    /\ gdata' = [gdata EXCEPT ![r] = [b \in DataTypes |-> EmptyMap]]
    /\ fetched' = [fetched EXCEPT ![r] = [b \in DataTypes |-> <<>>]]
    /\ todo' = [todo EXCEPT ![r] = {}]
    /\ resp' = [resp EXCEPT ![r] = NoResponse]
    /\ UNCHANGED <<cfg, metricsRegistry, crashed>>

AfterBranch(b) == IF b = "statistics" THEN "monitoring" ELSE "check"

\* if <configured> { ch := make(chan ...); go func() {...}() ... }: the branch
\* goroutine is launched and the handler goes on to its select, or the whole
\* block is skipped.
Branch(r, b) ==
    /\ ~crashed
    /\ hpc[r] = b
    /\ IF Configured(b)
       THEN /\ gpc' = [gpc EXCEPT ![r][b] = "run"]
            /\ hpc' = [hpc EXCEPT ![r] = "select_" \o b]
       ELSE /\ hpc' = [hpc EXCEPT ![r] = AfterBranch(b)]
            /\ UNCHANGED gpc
    /\ UNCHANGED <<cfg, metricsRegistry, crashed, scrapes, combinedData, errorChan,
                   gidx, gdata, fetched, todo, resp>>

StatisticsBranch(r) == Branch(r, "statistics")

MonitoringBranch(r) == Branch(r, "monitoring")

\* The base URL exists for the two known data types only (src/main.go:95-101).
ValidDataType(dataType) == dataType \in DataTypes

\* One iteration of "for _, MetricsCategory := range MetricsCategories" in the
\* branch goroutine of source type b: the fetch and the merge of its payload.
\* After the last category the function returns and the goroutine is at its
\* channel send.
FetchStep(r, b) ==
    /\ ~crashed
    /\ gpc[r][b] = "run"
    /\ IF ~ValidDataType(b)
       THEN /\ errorChan' = [errorChan EXCEPT ![r] = Append(@, "failed to fetch " \o b \o " data")]
            /\ gpc' = [gpc EXCEPT ![r][b] = "end"]
            /\ UNCHANGED <<crashed, gidx, gdata, fetched>>
       ELSE \E reply \in Replies(b) :
            LET MetricsCategory == cfg[b].cats[gidx[r][b]]
                res == fetchJSONData(reply, b)
                last == gidx[r][b] = Len(cfg[b].cats)
                advance == /\ gidx' = [gidx EXCEPT ![r][b] = @ + 1]
                           /\ fetched' = [fetched EXCEPT ![r][b] = Append(@, res)]
                           /\ gpc' = [gpc EXCEPT ![r][b] = IF last THEN "send" ELSE "run"]
                           /\ UNCHANGED <<crashed, errorChan>>
            IN  IF res.err
                THEN advance /\ UNCHANGED gdata
                ELSE IF b = "statistics"
                THEN /\ advance
                     /\ gdata' = [gdata EXCEPT ![r][b] =
                                     MergeStatistics(@, MetricsCategory, res.data)]
                ELSE IF MonitoringPanics(res.data)
                THEN /\ crashed' = TRUE
                     /\ UNCHANGED <<errorChan, gpc, gidx, gdata, fetched>>
                ELSE /\ advance
                     /\ gdata' = [gdata EXCEPT ![r][b] =
                                     MergeMonitoring(@, MetricsCategory, res.data)]
    /\ UNCHANGED <<cfg, metricsRegistry, scrapes, hpc, combinedData, todo, resp>>

\* for category, metrics := range data { combinedData[category] = metrics }
HandlerMerge(combined, data) ==
    [k \in DOMAIN combined \cup DOMAIN data |->
        IF k \in DOMAIN data THEN data[k] ELSE combined[k]]

\* select { case data := <-ch: ... case err := <-errorChan: ... }.  The result
\* channel is unbuffered: the receive is the rendezvous with the goroutine's
\* send.  A goroutine sends on exactly one of the two channels.
Select(r, b) ==
    /\ ~crashed
    /\ hpc[r] = "select_" \o b
    /\ IF errorChan[r] # <<>>
       THEN /\ resp' = [resp EXCEPT ![r] =
                           [status |-> StatusInternalServerError, body |-> Head(errorChan[r])]]
            /\ errorChan' = [errorChan EXCEPT ![r] = Tail(@)]
            /\ hpc' = [hpc EXCEPT ![r] = "done"]
            /\ UNCHANGED <<combinedData, gpc>>
       ELSE /\ gpc[r][b] = "send"
            /\ combinedData' = [combinedData EXCEPT ![r] = HandlerMerge(@, gdata[r][b])]
            /\ gpc' = [gpc EXCEPT ![r][b] = "end"]
            /\ hpc' = [hpc EXCEPT ![r] = AfterBranch(b)]
            /\ UNCHANGED <<resp, errorChan>>
    /\ UNCHANGED <<cfg, metricsRegistry, crashed, scrapes, gidx, gdata, fetched, todo>>

SelectStatistics(r) == Select(r, "statistics")

SelectMonitoring(r) == Select(r, "monitoring")

\* Mutation of NoData: the guard is missing, as in the one-source handler.
NoDataNever(data) == FALSE

NoConfigMessage == "No valid configuration provided for statistics or monitoring"

\* len(combinedData) == 0
NoData(data) == DOMAIN data = {}

\* Mutation of FreshRegistry: the old registry is kept.
KeepRegistry(old) == old

\* metricsRegistry = prometheus.NewRegistry()
FreshRegistry(old) == NewRegistry

\* The (category, metricName) pairs the two range loops visit.
Pairs(data) == {<<c, m>> : c \in DOMAIN data, m \in UNION {DOMAIN data[k] : k \in DOMAIN data}}
                 \cap {p \in (DOMAIN data) \X UNION {DOMAIN data[k] : k \in DOMAIN data} :
                          p[2] \in DOMAIN data[p[1]]}

\* The empty-dataset check and, past it, the replacement of the registry
\* (src/main.go:252-258).
CheckEmpty(r) ==
    /\ ~crashed
    /\ hpc[r] = "check"
    /\ IF NoData(combinedData[r])
       THEN /\ resp' = [resp EXCEPT ![r] =
                           [status |-> StatusBadRequest,
                            body |-> NoConfigMessage]]
            /\ hpc' = [hpc EXCEPT ![r] = "done"]
            /\ UNCHANGED <<metricsRegistry, todo>>
       ELSE /\ metricsRegistry' = FreshRegistry(metricsRegistry)
            /\ todo' = [todo EXCEPT ![r] = Pairs(combinedData[r])]
            /\ hpc' = [hpc EXCEPT ![r] = "register"]
            /\ UNCHANGED resp
    /\ UNCHANGED <<cfg, crashed, scrapes, combinedData, errorChan, gpc, gidx, gdata, fetched>>

\* metric.Set(float64(value)); metricsRegistry.Register(metric) and the
\* handling of its error (src/main.go:170-185): a new name is added; the same
\* name with the same help is AlreadyRegisteredError and the existing gauge is
\* set; the same name with another help is another error, which is only logged.
RegisterGauge(registry, category, metricName, value) ==
    LET name == SprintfUnderscore(category, metricName)
        help == SprintfHelp(metricName, category)
    IN  IF name \notin DOMAIN registry
        THEN registry @@ (name :> [help |-> help, value |-> Float64(value)])
        ELSE IF registry[name].help = help
        THEN [registry EXCEPT ![name].value = Float64(value)]
        ELSE registry

\* One iteration of the loops of registerMetricsFromJSON, in map order.  The
\* package variable is read at every Register call.
Register(r) ==
    /\ ~crashed
    /\ hpc[r] = "register"
    /\ \E p \in todo[r] :
        /\ metricsRegistry' =
              RegisterGauge(metricsRegistry, p[1], p[2], combinedData[r][p[1]][p[2]])
        /\ todo' = [todo EXCEPT ![r] = @ \ {p}]
    /\ UNCHANGED <<cfg, crashed, scrapes, hpc, combinedData, errorChan, gpc, gidx,
                   gdata, fetched, resp>>

\* What the registry gathers: gauge name -> value.
Gather(registry) == [n \in DOMAIN registry |-> registry[n].value]

\* registerMetricsFromJSON returned nil;
\* promhttp.HandlerFor(metricsRegistry, ...).ServeHTTP(w, r)
Serve(r) ==
    /\ ~crashed
    /\ hpc[r] = "register"
    /\ todo[r] = {}
    /\ resp' = [resp EXCEPT ![r] = [status |-> StatusOK, body |-> Gather(metricsRegistry)]]
    /\ hpc' = [hpc EXCEPT ![r] = "done"]
    /\ UNCHANGED <<cfg, metricsRegistry, crashed, scrapes, combinedData, errorChan,
                   gpc, gidx, gdata, fetched, todo>>

\* Everything a request in the handler, or one of its goroutines, can do.
Work(r) ==
    \/ StatisticsBranch(r)
    \/ SelectStatistics(r)
    \/ MonitoringBranch(r)
    \/ SelectMonitoring(r)
    \/ \E b \in DataTypes : FetchStep(r, b)
    \/ CheckEmpty(r)
    \/ Register(r)
    \/ Serve(r)

Next == \E r \in Reqs : Start(r) \/ Work(r)

\* The server as net/http runs it: scrapes may overlap.
Spec == Init /\ [][Next]_vars

\* A scraper that sends its next request after the previous response.
SeqStart(r) ==
    /\ \A q \in Reqs : hpc[q] \in {"idle", "done"}
    /\ Start(r)

SeqNext == \E r \in Reqs : SeqStart(r) \/ Work(r)

SeqSpec == Init /\ [][SeqNext]_vars

----------------------------------------------------------------------------
(* What a fragment is expected to hold, computed from what was fetched.    *)

RECURSIVE SumOf(_)
SumOf(S) ==
    IF S = {} THEN 0
    ELSE LET c == CHOOSE c \in S : TRUE IN c.value + SumOf(S \ {c})

Succeeded(log) == {i \in 1..Len(log) : ~log[i].err}

\* Every (fetch, qualified key, metric, value) a statistics payload contributes.
StatisticsContributions(cats, log) ==
    UNION { UNION { { [i |-> i, key |-> SprintfUnderscore(cats[i], c), metric |-> m,
                      value |-> log[i].data[c][m]] : m \in DOMAIN log[i].data[c] }
                    : c \in DOMAIN log[i].data }
            : i \in Succeeded(log) }

StatisticsKeys(cats, log) ==
    UNION { { SprintfUnderscore(cats[i], c) : c \in DOMAIN log[i].data } : i \in Succeeded(log) }

\* Every coercible reading of a monitoring payload.
MonitoringContributions(cats, log) ==
    UNION { { [i |-> i, key |-> cats[i], metric |-> m,
               value |-> IntOfFloat(ParseFloat(Cleaned(log[i].data[m])))]
              : m \in {n \in DOMAIN log[i].data :
                          /\ Len(Fields(log[i].data[n])) > 0
                          /\ ParseFloat(Cleaned(log[i].data[n])).ok} }
            : i \in Succeeded(log) }

MonitoringKeys(cats, log) == { cats[i] : i \in Succeeded(log) }

SummedDataset(keys, contributions) ==
    [k \in keys |->
        [m \in {c.metric : c \in {d \in contributions : d.key = k}} |->
            SumOf({c \in contributions : c.key = k /\ c.metric = m})]]

Returned(r, b) == gpc[r][b] \in {"send", "end"}

Answered(r) == hpc[r] = "done"

GaugeNames(data) == {SprintfUnderscore(p[1], p[2]) : p \in Pairs(data)}

GaugeValues(data, name) ==
    {Float64(data[p[1]][p[2]]) : p \in {q \in Pairs(data) : SprintfUnderscore(q[1], q[2]) = name}}

----------------------------------------------------------------------------
(* Claims.                                                                 *)

\* C1: a returned statistics fragment has exactly the qualified keys
\* {queryCategory}_{jsonCategory} of the payloads fetched successfully, and
\* under each key and metric name the sum of everything contributed there;
\* distinct qualified keys are never merged.
C1_StatisticsAdditive ==
    \A r \in Reqs :
        Returned(r, "statistics") =>
            LET cats == cfg["statistics"].cats
                log == fetched[r]["statistics"]
            IN  /\ Len(log) = Len(cats)
                /\ DOMAIN gdata[r]["statistics"] = StatisticsKeys(cats, log)
                /\ gdata[r]["statistics"] =
                      SummedDataset(StatisticsKeys(cats, log), StatisticsContributions(cats, log))

\* Two fetches of the same category both gave A -> {x: 2}: Q_A -> {x: 4}.
C1_Witness ==
    \E r \in Reqs :
        /\ Returned(r, "statistics")
        /\ cfg["statistics"].cats = <<catQ, catQ>>
        /\ \A i \in 1..2 : /\ ~fetched[r]["statistics"][i].err
                           /\ fetched[r]["statistics"][i].data = (jsonA :> (metricX :> 2))
        /\ gdata[r]["statistics"] = (SprintfUnderscore(catQ, jsonA) :> (metricX :> 4))

HasMetrics(res, b) ==
    /\ ~res.err
    /\ IF b = "statistics"
       THEN \E c \in DOMAIN res.data : DOMAIN res.data[c] # {}
       ELSE DOMAIN res.data # {}

\* C2: whatever subset of the categories fails upstream, the aggregation
\* never returns an error, goes on to the remaining categories, returns the
\* metrics of the successful categories only, and the scrape answers 200
\* whenever a category succeeded with metrics.
C2_PartialFailureTolerated ==
    \A r \in Reqs :
        /\ errorChan[r] = <<>>
        /\ resp[r].status # StatusInternalServerError
        /\ \A b \in DataTypes :
            /\ (\E i \in 1..Len(fetched[r][b]) : HasMetrics(fetched[r][b][i], b)) =>
                  /\ ~crashed
                  /\ Answered(r) => resp[r].status = StatusOK
        /\ Returned(r, "statistics") =>
              DOMAIN gdata[r]["statistics"] =
                  StatisticsKeys(cfg["statistics"].cats, fetched[r]["statistics"])
        /\ Returned(r, "monitoring") =>
              DOMAIN gdata[r]["monitoring"] =
                  MonitoringKeys(cfg["monitoring"].cats, fetched[r]["monitoring"])

\* C3: a scrape with no configured source, or whose configured sources all
\* yield an empty fragment, is answered 400 with the descriptive message,
\* never 200 or 500, and the step that answers 400 comes straight from the
\* empty-dataset check and leaves the registry as it was.
C3_NoConfiguration ==
    /\ [](\A r \in Reqs :
            (Answered(r) /\ \A b \in DataTypes : gdata[r][b] = EmptyMap) =>
                /\ resp[r].status = StatusBadRequest
                /\ resp[r].body = NoConfigMessage)
    /\ [][\A r \in Reqs :
            (resp'[r].status = StatusBadRequest /\ resp[r].status # StatusBadRequest) =>
                /\ hpc[r] = "check"
                /\ \A b \in DataTypes : gdata[r][b] = EmptyMap
                /\ metricsRegistry' = metricsRegistry]_vars

\* Both sources configured; statistics returned no category and monitoring
\* failed: 400.
C3_Witness ==
    \E r \in Reqs :
        /\ Answered(r)
        /\ Configured("statistics") /\ Configured("monitoring")
        /\ Returned(r, "statistics") /\ Returned(r, "monitoring")
        /\ ~fetched[r]["statistics"][1].err
        /\ fetched[r]["monitoring"][1].err
        /\ resp[r].status = StatusBadRequest

\* C4: scrapes handled one after another: a 200 exposition holds only gauges
\* of that scrape's own combined dataset, with that dataset's values;
\* nothing an earlier scrape published survives.
C4_RegistryIsolation ==
    \A r \in Reqs :
        (Answered(r) /\ resp[r].status = StatusOK) =>
            /\ DOMAIN resp[r].body \subseteq GaugeNames(combinedData[r])
            /\ \A n \in DOMAIN resp[r].body : resp[r].body[n] \in GaugeValues(combinedData[r], n)

\* Two scrapes were answered 200 and each exposition lacks a gauge of the
\* other one: the later scrape dropped a gauge the earlier one published.
C4_Witness ==
    \E r, q \in Reqs :
        /\ r # q
        /\ Answered(r) /\ resp[r].status = StatusOK
        /\ Answered(q) /\ resp[q].status = StatusOK
        /\ DOMAIN resp[r].body \ DOMAIN resp[q].body # {}
        /\ DOMAIN resp[q].body \ DOMAIN resp[r].body # {}

\* C5: a reading that cannot be coerced drops that one metric only: the
\* monitoring aggregation returns normally with every coercible sibling
\* accumulated, and the scrape is never aborted.
C5_MalformedReadingDropped ==
    /\ ~crashed
    /\ \A r \in Reqs :
          Returned(r, "monitoring") =>
              LET cats == cfg["monitoring"].cats
                  log == fetched[r]["monitoring"]
              IN  gdata[r]["monitoring"] =
                      SummedDataset(MonitoringKeys(cats, log), MonitoringContributions(cats, log))

\* C6: with both sources configured the two aggregations run concurrently:
\* while the handler waits for the statistics result, the monitoring branch
\* has been launched already.
C6_BranchesConcurrent ==
    \A r \in Reqs :
        (Configured("statistics") /\ Configured("monitoring")
            /\ hpc[r] = "select_statistics") =>
                gpc[r]["monitoring"] # "none"

AddDatasets(d1, d2) ==
    [k \in DOMAIN d1 \cup DOMAIN d2 |->
        LET m1 == Lookup(d1, k, EmptyMap)
            m2 == Lookup(d2, k, EmptyMap)
        IN  [m \in DOMAIN m1 \cup DOMAIN m2 |-> Lookup(m1, m, 0) + Lookup(m2, m, 0)]]

\* C7: once both fragments are merged, a qualified key present in both holds
\* every metric of both, and the sum for a metric name present in both.
C7_OverlapAdditive ==
    \A r \in Reqs :
        (hpc[r] \in {"check", "register", "done"} /\ resp[r].status # StatusInternalServerError) =>
            combinedData[r] = AddDatasets(gdata[r]["statistics"], gdata[r]["monitoring"])

\* C8: however two scrapes interleave, each 200 exposition holds exactly the
\* gauges of its own request's combined dataset, with its values.
C8_ConcurrentIsolation ==
    \A r \in Reqs :
        (Answered(r) /\ resp[r].status = StatusOK) =>
            /\ DOMAIN resp[r].body = GaugeNames(combinedData[r])
            /\ \A n \in DOMAIN resp[r].body : resp[r].body[n] \in GaugeValues(combinedData[r], n)

\* C9: every 200 response exposes at least one gauge.
C9_OkExposesGauge ==
    \A r \in Reqs :
        (Answered(r) /\ resp[r].status = StatusOK) => DOMAIN resp[r].body # {}

Running(r) == hpc[r] \notin {"idle", "done"}

\* C10: a scrape in progress can always take another step (no handler or
\* goroutine is stuck), and an answered scrape has one response and no
\* goroutine left.
C10_ScrapeTerminates ==
    \A r \in Reqs :
        /\ Running(r) => resp[r].status = 0 /\ ENABLED Work(r)
        /\ Answered(r) =>
              /\ resp[r].status # 0
              /\ \A b \in DataTypes : gpc[r][b] \in {"none", "end"}

====
